---- MODULE Spec2Model ----
(***************************************************************************)
(* Model of .github/scripts/update_checker.py (class UpdateChecker).       *)
(*                                                                         *)
(* Strings are sequences of one-character strings, so that the regular     *)
(* expression searches, str.split, str.replace and the substring tests of  *)
(* the script are computed character by character as the script computes   *)
(* them.  Python's None (and the empty string, which the script treats the *)
(* same way in every truth test) is the empty sequence.                    *)
(***************************************************************************)
EXTENDS Naturals, Sequences, FiniteSets, TLC

VARIABLES
    \* extract_version_from_filename called on its own
    filename, extracted, ex_pc,
    \* update_package_version called on its own
    new_build_version, nv_data, nv_result, nv_pc,
    \* update_yaml_file and update_yaml_file_with_github_url called on
    \* their own
    pm_file, pm_version, pm_mode, pm_github_url, pm_result, pm_pc,
    \* run: the environment variables, the files by path, what the version
    \* page gives, where run is and its local variables, what was appended
    \* to the file GITHUB_OUTPUT names, and the value returned
    environ, files, upstream, pc, latest_version, yaml_files, need_update,
    yaml_index, success_count, output, exit_status,
    \* run, observed: the files as they were at the start, the manifests an
    \* update function was called on, in order, and those it returned True
    \* for
    files0, attempted, patched,
    \* the world: the process clock as strftime("%m%d") gives it, and the
    \* architectures whose artifact the network serves
    current_date, net

ex_vars == <<filename, extracted, ex_pc>>
nv_vars == <<new_build_version, nv_data, nv_result, nv_pc>>
pm_vars == <<pm_file, pm_version, pm_mode, pm_github_url, pm_result, pm_pc>>
run_vars == <<environ, files, upstream, pc, latest_version, yaml_files, need_update,
              yaml_index, success_count, output, exit_status, files0, attempted,
              patched>>
world == <<current_date, net>>
vars == <<ex_vars, nv_vars, pm_vars, run_vars, world>>

(***************************************************************************)
(* Bounds of the model.                                                    *)
(***************************************************************************)
\* the longest file name given to extract_version_from_filename
MaxLen == 10
\* the longest version string given to update_package_version
MaxVersionLen == 7
\* the most source records of a manifest given to the two update functions
MaxSources == 2
\* the architecture directories, first of arch_dirs, that may hold a manifest
MaxArchDirs == 2

None == <<>>

(***************************************************************************)
(* Python string primitives.                                               *)
(***************************************************************************)
Digits == {"0", "1", "2", "3", "4", "5", "6", "7", "8", "9"}

\* s[i:] starts with t
StartsAt(s, i, t) ==
    /\ i + Len(t) - 1 <= Len(s)
    /\ \A k \in 1..Len(t) : s[i + k - 1] = t[k]

\* t in s
Contains(s, t) == \E i \in 1..(Len(s) + 1) : StartsAt(s, i, t)

\* s.startswith(t)
StartsWith(s, t) == StartsAt(s, 1, t)

\* s[i:].replace(old, new) for a non-empty old: leftmost, non-overlapping
RECURSIVE ReplaceFrom(_, _, _, _)
ReplaceFrom(s, i, old, new) ==
    IF i > Len(s) THEN <<>>
    ELSE IF StartsAt(s, i, old) THEN new \o ReplaceFrom(s, i + Len(old), old, new)
    ELSE <<s[i]>> \o ReplaceFrom(s, i + 1, old, new)

\* s.replace(old, new); re.sub(re.escape(old), new, s) for a new without
\* backslashes.  The script only calls it with a non-empty old.
Replace(s, old, new) == IF old = <<>> THEN s ELSE ReplaceFrom(s, 1, old, new)

\* s[i:].split(".") with cur the field collected so far
RECURSIVE SplitFrom(_, _, _)
SplitFrom(s, i, cur) ==
    IF i > Len(s) THEN <<cur>>
    ELSE IF s[i] = "." THEN <<cur>> \o SplitFrom(s, i + 1, <<>>)
    ELSE SplitFrom(s, i + 1, Append(cur, s[i]))

\* s.split(".")
Split(s) == SplitFrom(s, 1, <<>>)

(***************************************************************************)
(* The regular expressions of extract_version_from_filename.  Each Match   *)
(* operator gives the position after the match of the pattern anchored at  *)
(* position i, or 0 when the pattern does not match there.                 *)
(***************************************************************************)
\* the length of the maximal run of digits at position i: what \d+ takes
RECURSIVE DigitRun(_, _)
DigitRun(s, i) ==
    IF i <= Len(s) /\ s[i] \in Digits THEN 1 + DigitRun(s, i + 1) ELSE 0

\* \d+(\.\d+){k-1} anchored at i.  A greedy \d+ that gave back a digit
\* would be followed by that digit, never by the dot, so the only match
\* takes every run whole.
RECURSIVE MatchDotted(_, _, _)
MatchDotted(s, i, k) ==
    LET r == DigitRun(s, i) IN
    IF r = 0 THEN 0
    ELSE IF k = 1 THEN i + r
    ELSE IF i + r <= Len(s) /\ s[i + r] = "." THEN MatchDotted(s, i + r + 1, k - 1)
    ELSE 0

\* (?:\.\d+)* anchored at i, greedy: the position after the last group taken
RECURSIVE MatchGroups(_, _)
MatchGroups(s, i) ==
    IF i <= Len(s) /\ s[i] = "." /\ DigitRun(s, i + 1) > 0
    THEN MatchGroups(s, i + 1 + DigitRun(s, i + 1))
    ELSE i

\* \d+(?:\.\d+)+ anchored at i
MatchGeneric(s, i) ==
    LET r == DigitRun(s, i)
        e == MatchGroups(s, i + r)
    IN IF r > 0 /\ e > i + r THEN e ELSE 0

\* \d{4} anchored at i
MatchFourDigits(s, i) == IF DigitRun(s, i) >= 4 THEN i + 4 ELSE 0

\* the patterns, by name
MatchAt(pattern, s, i) ==
    CASE pattern = "d.d.d.d" -> MatchDotted(s, i, 4)
      [] pattern = "dddd"    -> MatchFourDigits(s, i)
      [] pattern = "d.d.d"   -> MatchDotted(s, i, 3)
      [] pattern = "d.d"     -> MatchDotted(s, i, 2)
      [] pattern = "d(.d)+"  -> MatchGeneric(s, i)

\* a when it is a match, else b
OrElse(a, b) == IF a # None THEN a ELSE b

\* the search of re.search from position i on: the match at the leftmost
\* position where the pattern matches, e being where the match anchored
\* at i ends
RECURSIVE SearchFrom(_, _, _)
MatchOrNext(pattern, s, i, e) ==
    IF e > 0 THEN SubSeq(s, i, e - 1) ELSE SearchFrom(pattern, s, i + 1)

SearchFrom(pattern, s, i) ==
    IF i > Len(s) THEN None ELSE MatchOrNext(pattern, s, i, MatchAt(pattern, s, i))

\* re.search(pattern, s).group(1), or None
Search(pattern, s) == SearchFrom(pattern, s, 1)

vivaldi_pattern == "d.d.d.d"

\* Faulty variant, for comparison: the bare 4-digit pattern tried after the dotted ones
patterns_dotted_first == <<"d.d.d", "d.d", "d(.d)+", "dddd">>

patterns == <<"dddd", "d.d.d", "d.d", "d(.d)+">>

\* for pattern in patterns[k:]: return the first match
RECURSIVE FirstPattern(_, _, _)
FirstPattern(pats, k, s) ==
    IF k > Len(pats) THEN None
    ELSE OrElse(Search(pats[k], s), FirstPattern(pats, k + 1, s))

\* Faulty variant, for comparison: the fallback patterns tried before the four-group pattern
extract_version_fallback_first(s) ==
    OrElse(FirstPattern(patterns, 1, s), Search(vivaldi_pattern, s))

extract_version_from_filename(s) ==
    OrElse(Search(vivaldi_pattern, s), FirstPattern(patterns, 1, s))

(***************************************************************************)
(* A manifest as yaml.safe_load gives it: a mapping whose keys keep the    *)
(* order of the document.  keys is that order; package, sources and build  *)
(* are the values of those keys and are read only when their key is in     *)
(* keys; every other key stands for a field the script never names and     *)
(* its value is in other.                                                  *)
(*   package : [isdict, version, id]   (id: the fields of package other    *)
(*                                      than version)                      *)
(*   sources : a sequence of [name, url, digest, kind]                     *)
(*   build   : [isstr, text]                                               *)
(***************************************************************************)
HasKey(yaml_data, key) == \E n \in 1..Len(yaml_data.keys) : yaml_data.keys[n] = key

NoPackage == [isdict |-> FALSE, version |-> <<>>, id |-> "-"]
NoBuild == [isstr |-> FALSE, text |-> <<>>]

(***************************************************************************)
(* update_package_version                                                  *)
(***************************************************************************)
Dot == <<".">>
Zero == <<"0">>

\* Faulty variant, for comparison: a version of four components (or more) is passed through as
\* it is, without the date
four_field_version_passthrough(version, date) ==
    LET version_parts == Split(version) IN
    IF Len(version_parts) >= 4 THEN version
    ELSE IF Len(version_parts) = 3
    THEN version_parts[1] \o Dot \o version_parts[2] \o Dot \o version_parts[3] \o Dot \o date
    ELSE IF Len(version_parts) = 2
    THEN version_parts[1] \o Dot \o version_parts[2] \o Dot \o Zero \o Dot \o date
    ELSE version_parts[1] \o Dot \o Zero \o Dot \o Zero \o Dot \o date

\* new_version of update_package_version
four_field_version(version, date) ==
    LET version_parts == Split(version) IN
    IF Len(version_parts) >= 3
    THEN version_parts[1] \o Dot \o version_parts[2] \o Dot \o version_parts[3] \o Dot \o date
    ELSE IF Len(version_parts) = 2
    THEN version_parts[1] \o Dot \o version_parts[2] \o Dot \o Zero \o Dot \o date
    ELSE IF Len(version_parts) = 1
    THEN version_parts[1] \o Dot \o Zero \o Dot \o Zero \o Dot \o date
    ELSE version \o Dot \o Zero \o Dot \o Zero \o Dot \o date

\* the second half of update_package_version, new_version computed
set_package_version(yaml_data, new_version) ==
    IF HasKey(yaml_data, "package") /\ yaml_data.package.isdict
    THEN [yaml_data |-> [yaml_data EXCEPT !.package.version = new_version],
          ret |-> TRUE, new_version |-> new_version]
    ELSE [yaml_data |-> yaml_data, ret |-> FALSE, new_version |-> new_version]

\* the call: the manifest after it, the value returned and new_version
update_package_version(yaml_data, version) ==
    set_package_version(yaml_data, four_field_version(version, current_date))

(***************************************************************************)
(* calculate_sha256: the digest of what the network serves at url, or      *)
(* None when the download fails.  The network serves the artifacts of the  *)
(* architectures in net; the digest stands for the bytes served at url.    *)
(***************************************************************************)
amd64 == <<"a","m","d","6","4">>
arm64 == <<"a","r","m","6","4">>
aarch64 == <<"a","a","r","c","h","6","4">>

Served(url) == \E a \in net : Contains(url, a)

calculate_sha256(url) ==
    IF Served(url) THEN <<"s","h","a","2","5","6",":">> \o url ELSE None

(***************************************************************************)
(* The new URL of a source record.                                         *)
(***************************************************************************)
download_url_template ==
    <<"d","l","/","{","v","e","r","s","i","o","n","}","/","v","_","{","a","r","c","h","}",".","d","e","b">>

version_placeholder == <<"{","v","e","r","s","i","o","n","}">>
arch_placeholder == <<"{","a","r","c","h","}">>

proxy_prefix ==
    <<"h","t","t","p","s",":","/","/","e","d","g","e","o","n","e",".","g","h","-","p","r","o","x","y",".","c","o","m","/">>

\* arch of the loop body: from the record's URL
arch_of(url) == IF Contains(url, arm64) \/ Contains(url, aarch64) THEN arm64 ELSE amd64

\* self.download_url_template.format(version=new_version, arch=arch), for a
\* template whose only fields are {version} and {arch}
template_url(new_version, arch) ==
    Replace(Replace(download_url_template, version_placeholder, new_version),
            arch_placeholder, arch)

\* "直接使用提供的GitHub URL，但需要替换架构": the URL before the prefix
arch_adjusted(github_url, arch) ==
    IF Contains(github_url, arch_placeholder)
    THEN Replace(github_url, arch_placeholder, arch)
    ELSE IF arch = arm64 /\ Contains(github_url, amd64)
    THEN Replace(github_url, amd64, arm64)
    ELSE github_url

\* "添加代理前缀"
with_proxy_prefix(new_url) ==
    IF ~StartsWith(new_url, proxy_prefix) THEN proxy_prefix \o new_url ELSE new_url

\* new_url of update_yaml_file_with_github_url
github_new_url(github_url, arch) == with_proxy_prefix(arch_adjusted(github_url, arch))

\* new_url of either function: mode is "template" in update_yaml_file and
\* "github" in update_yaml_file_with_github_url
new_url_of(mode, github_url, new_version, arch) ==
    IF mode = "github" THEN github_new_url(github_url, arch)
    ELSE template_url(new_version, arch)

(***************************************************************************)
(* The loop over the source records, common to update_yaml_file and        *)
(* update_yaml_file_with_github_url.                                       *)
(***************************************************************************)
\* the loop body on one record: the record is passed over (continue), or
\* it is updated (and the loop left).  The body is cut where it computes
\* current_version, new_name and new_url, and new_digest.
passed_over(source) == [updated |-> FALSE, source |-> source]

loop_body_digest(source, new_name, new_url, new_digest) ==
    IF new_digest = None THEN passed_over(source)
    ELSE [updated |-> TRUE,
          source |-> [source EXCEPT !.url = new_url, !.digest = new_digest,
                                    !.name = new_name]]

loop_body_url(source, new_name, new_url) ==
    loop_body_digest(source, new_name, new_url, calculate_sha256(new_url))

loop_body_version(source, mode, github_url, new_version, current_version) ==
    IF current_version = None THEN passed_over(source)
    ELSE loop_body_url(source, Replace(source.name, current_version, new_version),
                       new_url_of(mode, github_url, new_version, arch_of(source.url)))

loop_body(source, mode, github_url, new_version) ==
    IF source.name = <<>> \/ source.url = <<>> THEN passed_over(source)
    ELSE loop_body_version(source, mode, github_url, new_version,
                           extract_version_from_filename(source.url))

\* Faulty variant, for comparison: a failed download ends the loop, no later record is tried
RECURSIVE update_loop_first_match(_, _, _, _, _)
loop_step_first_match(sources, i, mode, github_url, new_version, b) ==
    IF b.updated THEN [index |-> i, sources |-> [sources EXCEPT ![i] = b.source]]
    ELSE IF sources[i].name # <<>> /\ sources[i].url # <<>>
            /\ extract_version_from_filename(sources[i].url) # None
    THEN [index |-> 0, sources |-> sources]
    ELSE update_loop_first_match(sources, i + 1, mode, github_url, new_version)

update_loop_first_match(sources, i, mode, github_url, new_version) ==
    IF i > Len(sources) THEN [index |-> 0, sources |-> sources]
    ELSE loop_step_first_match(sources, i, mode, github_url, new_version,
                               loop_body(sources[i], mode, github_url, new_version))

\* for i, source in enumerate(sources): the index of the record updated
\* (0: none) and the records after the loop; b is what the body did to
\* record i
RECURSIVE update_loop(_, _, _, _, _)
loop_step(sources, i, mode, github_url, new_version, b) ==
    IF b.updated THEN [index |-> i, sources |-> [sources EXCEPT ![i] = b.source]]
    ELSE update_loop(sources, i + 1, mode, github_url, new_version)

update_loop(sources, i, mode, github_url, new_version) ==
    IF i > Len(sources) THEN [index |-> 0, sources |-> sources]
    ELSE loop_step(sources, i, mode, github_url, new_version,
                   loop_body(sources[i], mode, github_url, new_version))

\* Faulty variant, for comparison: the build text is not brought in line with the new name
sync_build_forgotten(yaml_data, name, new_name) == yaml_data

\* the build text after "同步更新build字段中的文件名": name is the name the
\* updated record had, new_name the one it has now
sync_build(yaml_data, name, new_name) ==
    IF HasKey(yaml_data, "build") /\ yaml_data.build.isstr
    THEN [yaml_data EXCEPT !.build.text = Replace(@, name, new_name)]
    ELSE yaml_data

\* yaml.dump(yaml_data, ..., sort_keys=False): the keys in the order of
\* the mapping, every value as it is
yaml_dump(yaml_data) == yaml_data

(***************************************************************************)
(* A manifest file: parses says whether yaml.safe_load gives a mapping;    *)
(* yaml_data is that mapping.  Both update functions give the value        *)
(* returned and the file as it is after the call.                          *)
(***************************************************************************)
\* Faulty variant, for comparison: the file is opened for writing before the update is known to
\* succeed, and is left empty when it does not
not_updated_truncated(file) ==
    [ret |-> FALSE,
     file |-> [file EXCEPT !.parses = FALSE, !.yaml_data = [keys |-> <<>>]]]

\* return False: the file is as it was
not_updated(file) == [ret |-> FALSE, file |-> file]

\* yaml_data.get("sources", [])
sources_of(yaml_data) == IF HasKey(yaml_data, "sources") THEN yaml_data.sources ELSE <<>>

\* after the loop: the package version, the build text, the file written
write_back(file, sources, loop, new_version) ==
    IF loop.index = 0 THEN not_updated(file)
    ELSE [ret |-> TRUE,
          file |-> [file EXCEPT !.yaml_data =
              yaml_dump(sync_build(
                  update_package_version([@ EXCEPT !.sources = loop.sources],
                                         new_version).yaml_data,
                  sources[loop.index].name,
                  loop.sources[loop.index].name))]]

update_sources(file, sources, mode, github_url, new_version) ==
    IF sources = <<>> THEN not_updated(file)
    ELSE write_back(file, sources,
                    update_loop(sources, 1, mode, github_url, new_version), new_version)

update_yaml(file, mode, github_url, new_version) ==
    IF ~file.parses THEN not_updated(file)
    ELSE update_sources(file, sources_of(file.yaml_data), mode, github_url, new_version)

update_yaml_file_with_github_url(file, new_version, github_url) ==
    update_yaml(file, "github", github_url, new_version)

update_yaml_file(file, new_version) ==
    update_yaml(file, "template", <<>>, new_version)

(***************************************************************************)
(* get_current_version_from_yaml                                           *)
(***************************************************************************)
\* for source in sources[i:]: the first version a URL gives
RECURSIVE first_version(_, _)
first_version(sources, i) ==
    IF i > Len(sources) THEN None
    ELSE IF sources[i].url # <<>>
    THEN OrElse(extract_version_from_filename(sources[i].url),
                first_version(sources, i + 1))
    ELSE first_version(sources, i + 1)

get_current_version_from_yaml(file) ==
    IF ~file.parses THEN None ELSE first_version(sources_of(file.yaml_data), 1)

(***************************************************************************)
(* find_yaml_files: fs maps each path to the file there, exists saying     *)
(* whether there is one.                                                   *)
(***************************************************************************)
root_yaml == "linglong.yaml"

arch_dirs == <<"amd64", "arm64", "sw64", "riscv64", "loong64", "mips64">>

arch_yaml(arch_dir) ==
    CASE arch_dir = "amd64"   -> "amd64/linglong.yaml"
      [] arch_dir = "arm64"   -> "arm64/linglong.yaml"
      [] arch_dir = "sw64"    -> "sw64/linglong.yaml"
      [] arch_dir = "riscv64" -> "riscv64/linglong.yaml"
      [] arch_dir = "loong64" -> "loong64/linglong.yaml"
      [] arch_dir = "mips64"  -> "mips64/linglong.yaml"

\* for arch_dir in arch_dirs[i:]
RECURSIVE arch_yaml_files(_, _)
arch_yaml_files(fs, i) ==
    IF i > Len(arch_dirs) THEN <<>>
    ELSE (IF fs[arch_yaml(arch_dirs[i])].exists THEN <<arch_yaml(arch_dirs[i])>> ELSE <<>>)
             \o arch_yaml_files(fs, i + 1)

find_yaml_files(fs) ==
    (IF fs[root_yaml].exists THEN <<root_yaml>> ELSE <<>>) \o arch_yaml_files(fs, 1)

(***************************************************************************)
(* run: the comparison of the versions, and what run does after each of    *)
(* its stages.                                                             *)
(***************************************************************************)
\* Faulty variant, for comparison: every manifest counts as stale
version_needs_update_always(current_version, latest, force_update) == TRUE

\* the body of "for yaml_file in yaml_files" at "检查当前版本": whether
\* this manifest sets need_update
version_needs_update(current_version, latest, force_update) ==
    IF current_version # None THEN current_version # latest \/ force_update ELSE TRUE

\* need_update after the loop
need_update_of(fs, found, latest, force_update) ==
    \E n \in 1..Len(found) :
        version_needs_update(get_current_version_from_yaml(fs[found[n]]),
                             latest, force_update)

\* Faulty variant, for comparison: the run succeeds only when every manifest was updated
exit_after_patch_all(count, found) == IF count = Len(found) THEN 0 ELSE 1

\* the value run returns after the loop over the manifests in GitHub mode
exit_after_patch(count, found) == IF count > 0 THEN 0 ELSE 1

\* the lines appended to the file GITHUB_OUTPUT names
has_changes_line == [key |-> "has_changes", value |-> <<"t","r","u","e">>]

github_mode_output == <<has_changes_line>>

normal_mode_output(latest) ==
    <<has_changes_line,
      [key |-> "new_version", value |-> latest],
      [key |-> "download_url", value |-> template_url(latest, amd64)]>>

\* with open(output_file, "a") as f: ..., under the test on GITHUB_OUTPUT
append_output(out, env, lines) == IF env.GITHUB_OUTPUT THEN out \o lines ELSE out

(***************************************************************************)
(* The inputs.                                                             *)
(***************************************************************************)
\* the pieces file names are built from
Pieces == {<<"7">>, <<"4", "2", "0", "0">>, <<".">>, <<"v">>}

\* the characters version strings are built from
VersionChars == {"7", "1", "."}

\* datetime.now().strftime("%m%d")
Dates == {<<"0", "1", "0", "2">>, <<"1", "2", "3", "1">>}

Today == <<"1","1","0","2">>

OldVersion == <<"7",".","7",".","7",".","7">>
NewVersion == <<"7",".","7",".","7",".","8">>

OldPackageVersion == <<"7", ".", "7", ".", "7", ".", "0", "1", "0", "1">>

AmdName == <<"v","_","7",".","7",".","7",".","7","_","a","m","d","6","4",".","d","e","b">>
ArmName == <<"v","_","7",".","7",".","7",".","7","_","a","r","m","6","4",".","d","e","b">>
AmdUrl == <<"d","l","/","7",".","7",".","7",".","7","/","v","_","a","m","d","6","4",".","d","e","b">>
ArmUrl == <<"d","l","/","7",".","7",".","7",".","7","/","v","_","a","r","m","6","4",".","d","e","b">>
AarchUrl == <<"d","l","/","7",".","7",".","7",".","7","/","v","_","a","a","r","c","h","6","4",".","d","e","b">>
LatestUrl == <<"d","l","/","l","a","t","e","s","t","/","v","_","a","m","d","6","4",".","d","e","b">>
NewAmdName == <<"v","_","7",".","7",".","7",".","8","_","a","m","d","6","4",".","d","e","b">>
NewAmdUrl == <<"d","l","/","7",".","7",".","7",".","8","/","v","_","a","m","d","6","4",".","d","e","b">>

OldDigest(url) == <<"s","h","a","2","5","6",":">> \o url

Source(name, url) == [name |-> name, url |-> url, digest |-> OldDigest(url), kind |-> "file"]

\* source records: for amd64, for arm64 (named either way in the URL),
\* with a URL that holds no version, and without a name
SourceRecords ==
    {Source(AmdName, AmdUrl), Source(ArmName, ArmUrl), Source(ArmName, AarchUrl),
     Source(AmdName, LatestUrl), Source(<<>>, AmdUrl)}

SourceLists == UNION {[1..n -> SourceRecords] : n \in 0..MaxSources}

BuildPrefix == <<"a","r"," ","x"," ">>

BuildText(name) == [isstr |-> TRUE, text |-> BuildPrefix \o name]

Package == [isdict |-> TRUE, version |-> OldPackageVersion, id |-> "vivaldi"]

\* the top-level keys of a manifest with these sections, in document order
KeysOf(package, build) ==
    <<"version">> \o (IF package = NoPackage THEN <<>> ELSE <<"package">>)
        \o <<"base", "sources">> \o (IF build = NoBuild THEN <<>> ELSE <<"build">>)

Manifest(package, sources, build) ==
    [keys |-> KeysOf(package, build), package |-> package, sources |-> sources,
     build |-> build, other |-> "1"]

\* a manifest without the key sources
ManifestWithoutSources ==
    [keys |-> <<"version", "package", "base">>, package |-> Package, sources |-> <<>>,
     build |-> NoBuild, other |-> "1"]

FileOf(yaml_data) == [exists |-> TRUE, parses |-> TRUE, yaml_data |-> yaml_data]

\* a file yaml.safe_load fails on
BrokenFile == [exists |-> TRUE, parses |-> FALSE, yaml_data |-> [keys |-> <<>>]]

NoFile == [exists |-> FALSE, parses |-> FALSE, yaml_data |-> [keys |-> <<>>]]

\* manifests with a package mapping (with and without a version), with a
\* package that is no mapping, and without package
NvManifests ==
    {Manifest(Package, <<>>, NoBuild),
     Manifest([isdict |-> TRUE, version |-> <<>>, id |-> "vivaldi"], <<>>, BuildText(AmdName)),
     Manifest([isdict |-> FALSE, version |-> <<>>, id |-> "text"], <<>>, NoBuild),
     Manifest(NoPackage, <<>>, NoBuild)}

PmFiles ==
    {FileOf(Manifest(package, sources, build)) :
        package \in {Package, NoPackage}, sources \in SourceLists,
        build \in {BuildText(AmdName), BuildText(ArmName), NoBuild}}
    \cup {FileOf(ManifestWithoutSources), BrokenFile}

PlainGithubUrl == <<"g","h","/","v","_","a","m","d","6","4",".","d","e","b">>

GithubUrls ==
    {<<"g","h","/","v","_","{","a","r","c","h","}",".","d","e","b">>,
     PlainGithubUrl,
     <<"g","h","/","v","_","a","r","m","6","4",".","d","e","b">>,
     proxy_prefix \o PlainGithubUrl}

\* the manifests of a run: stale for amd64 and for arm64, at NewVersion,
\* with a URL that holds no version, and without sources
RunFiles ==
    {FileOf(Manifest(Package, <<Source(AmdName, AmdUrl)>>, BuildText(AmdName))),
     FileOf(Manifest(Package, <<Source(ArmName, ArmUrl)>>, BuildText(ArmName))),
     FileOf(Manifest(Package, <<Source(NewAmdName, NewAmdUrl)>>, BuildText(NewAmdName))),
     FileOf(Manifest(NoPackage, <<Source(AmdName, LatestUrl)>>, NoBuild)),
     FileOf(ManifestWithoutSources)}

AllPaths == {root_yaml} \cup {arch_yaml(arch_dirs[n]) : n \in 1..Len(arch_dirs)}

\* the paths that may hold a manifest
UsedPaths == {root_yaml} \cup {arch_yaml(arch_dirs[n]) : n \in 1..MaxArchDirs}

FileSystems ==
    {[p \in AllPaths |-> IF p \in UsedPaths THEN f[p] ELSE NoFile] :
        f \in [UsedPaths -> RunFiles \cup {NoFile}]}

\* FORCE_UPDATE and USE_GITHUB_URL: whether the variable is "true";
\* GITHUB_RELEASE_URL: its value, None when it is not set; GITHUB_OUTPUT:
\* whether it is set
Environments ==
    [FORCE_UPDATE : BOOLEAN, USE_GITHUB_URL : BOOLEAN,
     GITHUB_RELEASE_URL : {None, PlainGithubUrl}, GITHUB_OUTPUT : BOOLEAN]

NoResult == [yaml_data |-> [keys |-> <<>>], ret |-> FALSE, new_version |-> <<>>]
NoCall == [ret |-> FALSE, file |-> NoFile]
NoEnvironment ==
    [FORCE_UPDATE |-> FALSE, USE_GITHUB_URL |-> FALSE, GITHUB_RELEASE_URL |-> None,
     GITHUB_OUTPUT |-> FALSE]

(***************************************************************************)
(* extract_version_from_filename on file names built from Pieces.          *)
(***************************************************************************)
\* one more piece of the file name
ex_Grow ==
    /\ ex_pc = "build"
    /\ \E p \in Pieces :
         /\ Len(filename) + Len(p) <= MaxLen
         /\ filename' = filename \o p
    /\ UNCHANGED <<extracted, ex_pc, nv_vars, pm_vars, run_vars, world>>

\* the call extract_version_from_filename(filename)
ex_Call ==
    /\ ex_pc = "build"
    /\ extracted' = extract_version_from_filename(filename)
    /\ ex_pc' = "done"
    /\ UNCHANGED <<filename, nv_vars, pm_vars, run_vars, world>>

(***************************************************************************)
(* update_package_version on version strings built from VersionChars.      *)
(***************************************************************************)
\* one more character of the version string
nv_Grow ==
    /\ nv_pc = "build"
    /\ Len(new_build_version) < MaxVersionLen
    /\ \E c \in VersionChars : new_build_version' = Append(new_build_version, c)
    /\ UNCHANGED <<nv_data, nv_result, nv_pc, ex_vars, pm_vars, run_vars, world>>

\* the call update_package_version(nv_data, new_build_version)
nv_Call ==
    /\ nv_pc = "build"
    /\ nv_result' = update_package_version(nv_data, new_build_version)
    /\ nv_pc' = "done"
    /\ UNCHANGED <<new_build_version, nv_data, ex_vars, pm_vars, run_vars, world>>

(***************************************************************************)
(* The two update functions on manifests of up to MaxSources records.      *)
(***************************************************************************)
\* the call update_yaml_file(pm_file, pm_version)
pm_CallTemplate ==
    /\ pm_pc = "call"
    /\ pm_mode = "template"
    /\ pm_result' = update_yaml_file(pm_file, pm_version)
    /\ pm_pc' = "done"
    /\ UNCHANGED <<pm_file, pm_version, pm_mode, pm_github_url, ex_vars, nv_vars,
                   run_vars, world>>

\* the call update_yaml_file_with_github_url(pm_file, pm_version, pm_github_url)
pm_CallGithub ==
    /\ pm_pc = "call"
    /\ pm_mode = "github"
    /\ pm_result' = update_yaml_file_with_github_url(pm_file, pm_version, pm_github_url)
    /\ pm_pc' = "done"
    /\ UNCHANGED <<pm_file, pm_version, pm_mode, pm_github_url, ex_vars, nv_vars,
                   run_vars, world>>

(***************************************************************************)
(* run, stage by stage.                                                    *)
(***************************************************************************)
others == <<ex_vars, nv_vars, pm_vars, world, environ, upstream, files0>>

\* latest_version = self.fetch_latest_version(); return 1 without it
run_Fetch ==
    /\ pc = "fetch"
    /\ latest_version' = upstream
    /\ IF upstream = None
       THEN pc' = "done" /\ exit_status' = 1
       ELSE pc' = "locate" /\ UNCHANGED exit_status
    /\ UNCHANGED <<files, yaml_files, need_update, yaml_index, success_count, output,
                   attempted, patched, others>>

\* yaml_files = self.find_yaml_files(); return 1 without any
run_Locate ==
    /\ pc = "locate"
    /\ yaml_files' = find_yaml_files(files)
    /\ IF yaml_files' = <<>>
       THEN pc' = "done" /\ exit_status' = 1
       ELSE pc' = "compare" /\ UNCHANGED exit_status
    /\ UNCHANGED <<files, latest_version, need_update, yaml_index, success_count, output,
                   attempted, patched, others>>

\* the comparison of the versions, and the choice of what follows: return
\* 0, the loop over the manifests (GitHub mode), return 1 (GitHub mode
\* without a release URL), or the report (normal mode)
run_Compare ==
    /\ pc = "compare"
    /\ need_update' = need_update_of(files, yaml_files, latest_version, environ.FORCE_UPDATE)
    /\ IF ~need_update' /\ ~environ.FORCE_UPDATE
       THEN pc' = "done" /\ exit_status' = 0
       ELSE IF environ.USE_GITHUB_URL
       THEN IF environ.GITHUB_RELEASE_URL # None
            THEN pc' = "patch" /\ UNCHANGED exit_status
            ELSE pc' = "done" /\ exit_status' = 1
       ELSE pc' = "report" /\ UNCHANGED exit_status
    /\ yaml_index' = 1
    /\ success_count' = 0
    /\ UNCHANGED <<files, latest_version, yaml_files, output, attempted, patched, others>>

\* Faulty variant, for comparison: only the manifests whose version is not the latest are updated
run_Patch_stale_only ==
    /\ pc = "patch"
    /\ yaml_index <= Len(yaml_files)
    /\ LET yaml_file == yaml_files[yaml_index]
           call == update_yaml_file_with_github_url(files[yaml_file], latest_version,
                                                    environ.GITHUB_RELEASE_URL)
       IN IF version_needs_update(get_current_version_from_yaml(files[yaml_file]),
                                  latest_version, environ.FORCE_UPDATE)
          THEN /\ files' = [files EXCEPT ![yaml_file] = call.file]
               /\ success_count' = IF call.ret THEN success_count + 1 ELSE success_count
               /\ attempted' = Append(attempted, yaml_file)
               /\ patched' = IF call.ret THEN patched \cup {yaml_file} ELSE patched
          ELSE UNCHANGED <<files, success_count, attempted, patched>>
    /\ yaml_index' = yaml_index + 1
    /\ UNCHANGED <<pc, latest_version, yaml_files, need_update, output, exit_status, others>>

\* one turn of the loop "更新每个YAML文件"
run_Patch ==
    /\ pc = "patch"
    /\ yaml_index <= Len(yaml_files)
    /\ LET yaml_file == yaml_files[yaml_index]
           call == update_yaml_file_with_github_url(files[yaml_file], latest_version,
                                                    environ.GITHUB_RELEASE_URL)
       IN /\ files' = [files EXCEPT ![yaml_file] = call.file]
          /\ success_count' = IF call.ret THEN success_count + 1 ELSE success_count
          /\ attempted' = Append(attempted, yaml_file)
          /\ patched' = IF call.ret THEN patched \cup {yaml_file} ELSE patched
    /\ yaml_index' = yaml_index + 1
    /\ UNCHANGED <<pc, latest_version, yaml_files, need_update, output, exit_status, others>>

\* after the loop: has_changes and 0 with a success, 1 without
run_Patched ==
    /\ pc = "patch"
    /\ yaml_index > Len(yaml_files)
    /\ exit_status' = exit_after_patch(success_count, yaml_files)
    /\ output' = IF success_count > 0
                 THEN append_output(output, environ, github_mode_output)
                 ELSE output
    /\ pc' = "done"
    /\ UNCHANGED <<files, latest_version, yaml_files, need_update, yaml_index,
                   success_count, attempted, patched, others>>

\* normal mode: the download URL and the version are reported; return 0
run_Report ==
    /\ pc = "report"
    /\ output' = append_output(output, environ, normal_mode_output(latest_version))
    /\ exit_status' = 0
    /\ pc' = "done"
    /\ UNCHANGED <<files, latest_version, yaml_files, need_update, yaml_index,
                   success_count, attempted, patched, others>>

(***************************************************************************)
(* The specifications: run, and each of the functions called on its own.   *)
(* Whatever a specification does not use stays as it is at the start.      *)
(***************************************************************************)
Init ==
    /\ filename = <<>> /\ extracted = None /\ ex_pc = "idle"
    /\ new_build_version = <<>> /\ nv_data = [keys |-> <<>>]
    /\ nv_result = NoResult /\ nv_pc = "idle"
    /\ pm_file = NoFile /\ pm_version = <<>> /\ pm_mode = "idle"
    /\ pm_github_url = <<>> /\ pm_result = NoCall /\ pm_pc = "idle"
    /\ environ \in Environments
    /\ files \in FileSystems
    /\ files0 = files
    /\ upstream \in {None, NewVersion}
    /\ pc = "fetch"
    /\ latest_version = None
    /\ yaml_files = <<>>
    /\ need_update = FALSE
    /\ yaml_index = 1
    /\ success_count = 0
    /\ output = <<>>
    /\ exit_status = 0
    /\ attempted = <<>>
    /\ patched = {}
    /\ current_date = Today
    /\ net \in SUBSET {amd64, arm64}

Next == run_Fetch \/ run_Locate \/ run_Compare \/ run_Patch \/ run_Patched \/ run_Report

Spec == Init /\ [][Next]_vars

InitExtract ==
    /\ filename = <<>> /\ extracted = None /\ ex_pc = "build"
    /\ new_build_version = <<>> /\ nv_data = [keys |-> <<>>]
    /\ nv_result = NoResult /\ nv_pc = "idle"
    /\ pm_file = NoFile /\ pm_version = <<>> /\ pm_mode = "idle"
    /\ pm_github_url = <<>> /\ pm_result = NoCall /\ pm_pc = "idle"
    /\ environ = NoEnvironment /\ files = [p \in AllPaths |-> NoFile] /\ files0 = files
    /\ upstream = None /\ pc = "idle" /\ latest_version = None /\ yaml_files = <<>>
    /\ need_update = FALSE /\ yaml_index = 1 /\ success_count = 0 /\ output = <<>>
    /\ exit_status = 0 /\ attempted = <<>> /\ patched = {}
    /\ current_date = Today /\ net = {}

NextExtract == ex_Grow \/ ex_Call

SpecExtract == InitExtract /\ [][NextExtract]_vars

InitVersion ==
    /\ filename = <<>> /\ extracted = None /\ ex_pc = "idle"
    /\ new_build_version = <<>> /\ nv_data \in NvManifests
    /\ nv_result = NoResult /\ nv_pc = "build"
    /\ pm_file = NoFile /\ pm_version = <<>> /\ pm_mode = "idle"
    /\ pm_github_url = <<>> /\ pm_result = NoCall /\ pm_pc = "idle"
    /\ environ = NoEnvironment /\ files = [p \in AllPaths |-> NoFile] /\ files0 = files
    /\ upstream = None /\ pc = "idle" /\ latest_version = None /\ yaml_files = <<>>
    /\ need_update = FALSE /\ yaml_index = 1 /\ success_count = 0 /\ output = <<>>
    /\ exit_status = 0 /\ attempted = <<>> /\ patched = {}
    /\ current_date \in Dates /\ net = {}

NextVersion == nv_Grow \/ nv_Call

SpecVersion == InitVersion /\ [][NextVersion]_vars

InitPatch ==
    /\ filename = <<>> /\ extracted = None /\ ex_pc = "idle"
    /\ new_build_version = <<>> /\ nv_data = [keys |-> <<>>]
    /\ nv_result = NoResult /\ nv_pc = "idle"
    /\ pm_file \in PmFiles
    /\ pm_version \in {OldVersion, NewVersion}
    /\ \/ pm_mode = "template" /\ pm_github_url = <<>>
       \/ pm_mode = "github" /\ pm_github_url \in GithubUrls
    /\ pm_result = NoCall
    /\ pm_pc = "call"
    /\ environ = NoEnvironment /\ files = [p \in AllPaths |-> NoFile] /\ files0 = files
    /\ upstream = None /\ pc = "idle" /\ latest_version = None /\ yaml_files = <<>>
    /\ need_update = FALSE /\ yaml_index = 1 /\ success_count = 0 /\ output = <<>>
    /\ exit_status = 0 /\ attempted = <<>> /\ patched = {}
    /\ current_date = Today
    /\ net \in SUBSET {amd64, arm64}

NextPatch == pm_CallTemplate \/ pm_CallGithub

SpecPatch == InitPatch /\ [][NextPatch]_vars

(***************************************************************************)
(* The claims about run.                                                   *)
(***************************************************************************)
RangeOf(seq) == {seq[n] : n \in 1..Len(seq)}

\* the manifests there are when run starts
Discovered == {p \in AllPaths : files0[p].exists}

\* the version recorded in the manifest at p when run starts
Recorded(p) == get_current_version_from_yaml(files0[p])

\* the manifest at p is stale, unreadable or covered by the force flag
NeedsUpdate(p) ==
    Recorded(p) = None \/ Recorded(p) # upstream \/ environ.FORCE_UPDATE

\* run has returned and had gone past the comparison of the versions
PastCompare ==
    /\ pc = "done"
    /\ upstream # None
    /\ \E p \in Discovered : NeedsUpdate(p)

GithubMode == environ.USE_GITHUB_URL /\ environ.GITHUB_RELEASE_URL # None

\* C1: when every discovered manifest records the version just fetched
\* and FORCE_UPDATE is not "true", run writes no manifest, appends nothing
\* to the file GITHUB_OUTPUT names and returns 0, whatever USE_GITHUB_URL.
C1_NothingToDo ==
    (/\ upstream # None
     /\ Discovered # {}
     /\ \A p \in Discovered : Recorded(p) = upstream
     /\ ~environ.FORCE_UPDATE)
    => /\ files = files0
       /\ output = <<>>
       /\ attempted = <<>>
       /\ pc = "done" => exit_status = 0

\* C1 witness: run has returned from two manifests at the latest version,
\* in GitHub mode, with GITHUB_OUTPUT set.
C1_Witness ==
    /\ pc = "done"
    /\ upstream # None
    /\ Cardinality(Discovered) >= 2
    /\ \A p \in Discovered : Recorded(p) = upstream
    /\ ~environ.FORCE_UPDATE
    /\ GithubMode
    /\ environ.GITHUB_OUTPUT
    /\ exit_status = 0

\* C2 as claimed: past the comparison, under either strategy, a patch is
\* attempted on exactly the manifests that need the update, and a manifest
\* at the latest version (force unset) is not rewritten.
C2_PatchExactlyTheStale ==
    (PastCompare /\ (GithubMode \/ ~environ.USE_GITHUB_URL)) =>
        /\ RangeOf(attempted) = {p \in Discovered : NeedsUpdate(p)}
        /\ \A p \in Discovered : ~NeedsUpdate(p) => files[p] = files0[p]

\* C2 as amended: past the comparison, in GitHub mode (USE_GITHUB_URL with
\* a GITHUB_RELEASE_URL) a patch is attempted once on every discovered
\* manifest, those at the latest version included; in normal mode, and in
\* GitHub mode without a release URL, no patch is attempted and no
\* manifest is written.
C2_PatchAllInGithubMode ==
    PastCompare =>
        IF GithubMode
        THEN /\ RangeOf(attempted) = Discovered
             /\ Len(attempted) = Cardinality(Discovered)
             /\ attempted = find_yaml_files(files0)
        ELSE attempted = <<>> /\ files = files0

\* C2 witness: in GitHub mode a manifest already at the latest version is
\* patched and rewritten beside a stale one.
C2_Witness ==
    /\ PastCompare
    /\ GithubMode
    /\ \E p \in Discovered :
         /\ ~NeedsUpdate(p)
         /\ p \in patched
         /\ files[p] # files0[p]
    /\ \E p \in Discovered : Recorded(p) # None /\ Recorded(p) # upstream /\ p \in patched

\* C3 as claimed: run returns 1 exactly when the fetch failed, no manifest
\* was found, or updates were needed and no manifest was patched; else 0.
C3_ExitStatus ==
    pc = "done" =>
        /\ exit_status \in {0, 1}
        /\ exit_status = 1 <=>
             \/ upstream = None
             \/ Discovered = {}
             \/ (\E p \in Discovered : NeedsUpdate(p)) /\ patched = {}

\* C3 as amended: run returns 1 exactly when the fetch failed, no manifest
\* was found, or updates were needed with USE_GITHUB_URL "true" and no
\* manifest was patched (a missing GITHUB_RELEASE_URL included); else 0.
\* In normal mode a run that needs updates returns 0 and patches nothing;
\* in GitHub mode one patched manifest is enough for 0.
C3_ExitStatusByMode ==
    pc = "done" =>
        /\ exit_status \in {0, 1}
        /\ exit_status = 1 <=>
             \/ upstream = None
             \/ Discovered = {}
             \/ /\ \E p \in Discovered : NeedsUpdate(p)
                /\ environ.USE_GITHUB_URL
                /\ patched = {}
        /\ (PastCompare /\ ~environ.USE_GITHUB_URL) => patched = {} /\ exit_status = 0

\* C3 witness: a partial failure in GitHub mode, which returns 0.
C3_Witness ==
    /\ PastCompare
    /\ GithubMode
    /\ patched # {}
    /\ \E p \in RangeOf(attempted) : p \notin patched
    /\ exit_status = 0

\* C4: a manifest whose patch fails is left as it was and is not counted,
\* and every other discovered manifest is attempted all the same, wherever
\* the failing one stands.
C4_FailuresIsolated ==
    /\ \A p \in RangeOf(attempted) : p \notin patched => files[p] = files0[p]
    /\ patched \subseteq RangeOf(attempted)
    /\ success_count = Cardinality(patched)
    /\ (pc = "done" /\ attempted # <<>>) => RangeOf(attempted) = Discovered

\* C4 witness: of three manifests the second fails on the download of its
\* artifact (its URL holds a version), the first and the third are patched.
C4_Witness ==
    /\ pc = "done"
    /\ Len(attempted) = 3
    /\ attempted[1] \in patched
    /\ attempted[2] \notin patched
    /\ Recorded(attempted[2]) # None
    /\ attempted[3] \in patched
    /\ files[attempted[3]] # files0[attempted[3]]

(***************************************************************************)
(* The claims about update_yaml_file and update_yaml_file_with_github_url. *)
(***************************************************************************)
Before == pm_file.yaml_data
After == pm_result.file.yaml_data

Patched == pm_pc = "done" /\ pm_result.ret

\* record i has a name and a URL from which a version can be extracted
Matching(i) ==
    /\ Before.sources[i].name # <<>>
    /\ Before.sources[i].url # <<>>
    /\ extract_version_from_filename(Before.sources[i].url) # None

\* the URL the artifact of record i is downloaded from
NewUrl(i) ==
    new_url_of(pm_mode, pm_github_url, pm_version, arch_of(Before.sources[i].url))

\* the name record i gets
NewName(i) ==
    Replace(Before.sources[i].name,
            extract_version_from_filename(Before.sources[i].url), pm_version)

\* record i matches and its artifact can be downloaded
Updatable(i) == Matching(i) /\ Served(NewUrl(i))

First(S) == CHOOSE i \in S : \A j \in S : i <= j

MatchingRecords == {i \in 1..Len(Before.sources) : Matching(i)}
UpdatableRecords == {i \in 1..Len(Before.sources) : Updatable(i)}

NameInBuild ==
    /\ Len(Before.sources) >= 1
    /\ Matching(1)
    /\ Contains(Before.sources[1].name,
                extract_version_from_filename(Before.sources[1].url))
    /\ HasKey(Before, "build")
    /\ Before.build.isstr
    /\ Contains(Before.build.text, Before.sources[1].name)

other_arch(arch) == IF arch = arm64 THEN amd64 ELSE arm64

\* C9: in GitHub mode the URL written to the record names the
\* architecture of the record (arm64 when its old URL holds arm64 or
\* aarch64, else amd64), the placeholder substituted or the literal
\* swapped in either direction, and starts with exactly one copy of the
\* mirror prefix.
C9_UrlNamesRecordArchitecture ==
    (Patched /\ pm_mode = "github") =>
        \A i \in 1..Len(Before.sources) :
            After.sources[i] # Before.sources[i] =>
                /\ Contains(After.sources[i].url, arch_of(Before.sources[i].url))
                /\ ~Contains(After.sources[i].url, other_arch(arch_of(Before.sources[i].url)))
                /\ StartsWith(After.sources[i].url, proxy_prefix)
                /\ ~StartsAt(After.sources[i].url, Len(proxy_prefix) + 1, proxy_prefix)

(***************************************************************************)
(* The claims about update_package_version.                                *)
(***************************************************************************)
\* C7: update_package_version always produces four dot-separated fields,
\* the last one the date (MMDD): the first three components of the input
\* when it has three or more, a 0 as third field when it has two, two 0
\* fields when it has one; and package.version is set to that value
\* whenever the manifest has a package mapping.
C7_FourFields ==
    nv_pc = "done" =>
        LET parts == Split(new_build_version)
            out == Split(nv_result.new_version)
        IN /\ Len(out) = 4
           /\ out[4] = current_date
           /\ Len(parts) >= 3 => SubSeq(out, 1, 3) = SubSeq(parts, 1, 3)
           /\ Len(parts) = 2 => SubSeq(out, 1, 3) = <<parts[1], parts[2], <<"0">>>>
           /\ Len(parts) = 1 => SubSeq(out, 1, 3) = <<parts[1], <<"0">>, <<"0">>>>
           /\ (HasKey(nv_data, "package") /\ nv_data.package.isdict) =>
                /\ nv_result.ret
                /\ nv_result.yaml_data.package.version = nv_result.new_version

\* C7 witness: a version of four components, of which the fourth is
\* replaced by the date, written to the package mapping.
C7_Witness ==
    /\ nv_pc = "done"
    /\ Len(Split(new_build_version)) = 4
    /\ \A n \in 1..4 : Split(new_build_version)[n] # <<>>
    /\ Split(new_build_version)[4] # current_date
    /\ nv_data.package.isdict
    /\ nv_data.package.version = OldPackageVersion
    /\ nv_result.yaml_data.package.version = nv_result.new_version
    /\ Split(nv_result.new_version)[4] = current_date

(***************************************************************************)
(* What the claims about extract_version_from_filename speak of, stated    *)
(* without the search: a dotted version of k groups is a substring whose   *)
(* k dot-separated fields are non-empty runs of digits.                    *)
(***************************************************************************)
IsDigits(t) == t # <<>> /\ \A n \in 1..Len(t) : t[n] \in Digits

IsDottedVersion(t, k) ==
    /\ t # <<>>
    /\ t[1] \in Digits
    /\ t[Len(t)] \in Digits
    /\ LET f == Split(t) IN Len(f) = k /\ \A n \in 1..k : IsDigits(f[n])

\* the places <<i, j>> of the k-group tokens of s
TokensOf(s, k) ==
    {p \in (1..Len(s)) \X (1..Len(s)) :
        p[1] <= p[2] /\ IsDottedVersion(SubSeq(s, p[1], p[2]), k)}

\* the leftmost k-group token of s, taken as long as it goes
LeftmostToken(s, k) ==
    LET T == TokensOf(s, k)
        p == CHOOSE q \in T : \A r \in T : q[1] < r[1] \/ (q[1] = r[1] /\ q[2] >= r[2])
    IN SubSeq(s, p[1], p[2])

NoDigit(s) == \A n \in 1..Len(s) : s[n] \notin Digits

\* the places where four digits in a row start
FourDigitStarts(s) ==
    {i \in 1..Len(s) : i + 3 <= Len(s) /\ \A n \in 0..3 : s[i + n] \in Digits}

\* C8: a file name that contains a token of four dot-separated numeric
\* groups yields exactly that token, the leftmost one, whatever shorter
\* pattern matches too; a file name without any digit yields none.
C8_FourGroupTokenWins ==
    ex_pc = "done" =>
        /\ TokensOf(filename, 4) # {} => extracted = LeftmostToken(filename, 4)
        /\ NoDigit(filename) => extracted = None

\* C8 witness: the four-group token is returned from a name in which the
\* bare 4-digit fallback matches as well, and earlier than any other digit.
C8_Witness ==
    /\ ex_pc = "done"
    /\ TokensOf(filename, 4) # {}
    /\ FourDigitStarts(filename) # {}
    /\ Len(extracted) >= 10
    /\ extracted = LeftmostToken(filename, 4)

\* the 4-digit run at place i is only a part of a longer dotted version
PartOfDottedVersion(s, i) ==
    \E k \in 2..Len(s) : \E p \in TokensOf(s, k) : p[1] <= i /\ i + 3 <= p[2]

\* C10 as claimed: without a four-group token in the input, the result is
\* never a bare 4-digit run that is only a part of a longer dotted version
\* of the input.
C10_NeverPartOfDottedVersion ==
    (ex_pc = "done" /\ TokensOf(filename, 4) = {}) =>
        ~ \E i \in FourDigitStarts(filename) :
            /\ extracted = SubSeq(filename, i, i + 3)
            /\ PartOfDottedVersion(filename, i)

\* C10 as amended: without a four-group token in the input, the bare
\* 4-digit pattern is tried first and wins whenever four digits occur in a
\* row, part of a dotted version or not: the result is then the first four
\* digits of the leftmost such run.  Only an input without four digits in a
\* row yields a dotted version whole: its leftmost three-group one, else
\* its leftmost two-group one, else none.
C10_FourDigitsFirst ==
    (ex_pc = "done" /\ TokensOf(filename, 4) = {}) =>
        IF FourDigitStarts(filename) # {}
        THEN LET i == CHOOSE j \in FourDigitStarts(filename) :
                         \A h \in FourDigitStarts(filename) : j <= h
             IN extracted = SubSeq(filename, i, i + 3)
        ELSE IF TokensOf(filename, 3) # {} THEN extracted = LeftmostToken(filename, 3)
        ELSE IF TokensOf(filename, 2) # {} THEN extracted = LeftmostToken(filename, 2)
        ELSE extracted = None

\* C10 witness: a three-group version with a 4-digit component, of which
\* only the four digits are returned.
C10_Witness ==
    /\ ex_pc = "done"
    /\ TokensOf(filename, 4) = {}
    /\ TokensOf(filename, 3) # {}
    /\ Len(extracted) = 4
    /\ \E i \in FourDigitStarts(filename) :
         extracted = SubSeq(filename, i, i + 3) /\ PartOfDottedVersion(filename, i)

====
